---- MODULE Spec2Model ----
\* Order lifecycle of the cafe backend: the order routes (routes/orders.js, kept as
\* src/unnamed/part_000), the Order schema and its pre-save hook (models/Order.js,
\* kept as src/unnamed/part_002) and the catalog routes (src/menu.js).
\*
\* Every request handler is cut at its awaits: the code between two awaits runs
\* without interruption on the Node event loop, and a database operation takes
\* effect at one instant. A database read and the handler code that runs on its
\* result, up to the next database operation, form one action.
\*
\* Conventions
\*   - Strings the code trims or lower-cases are sequences of one-character
\*     strings; NoString is an undefined string field.
\*   - NoObject is an undefined object (a missing JSON object, a findById or
\*     findOne that found nothing).
\*   - An optional date is a sequence of at most one time.
\*   - A quantity is a JavaScript number; the model counts it in halves, so that
\*     2 is the quantity 1 and 3 is the quantity 1.5. Catalog prices are even, so
\*     price * quantity stays an integer.
\*   - Times are milliseconds, as Date.now() returns them.
EXTENDS Integers, Sequences, FiniteSets

----------------------------------------------------------------------------
\* Bounds of the model.

MaxItems == 2       \* longest item list of a creation request
MaxOrders == 2      \* orders persisted in one behaviour
MaxTicks == 1       \* milliseconds the clock advances in one behaviour

----------------------------------------------------------------------------
\* Values.

NoString == <<"undefined">>
NoObject == [undefined |-> TRUE]
NoDate == <<>>

Creators == {"c1", "c2"}        \* concurrent POST /api/orders requests
Updaters == {"u1"}              \* concurrent PUT /api/orders/:orderNumber/status requests
Getters == {"g1"}               \* concurrent GET /api/orders/:orderNumber requests

MenuIds == {"m1"}               \* ids of the seeded catalog items
MalformedId == "not-an-id"      \* a string ObjectId.isValid rejects
UnknownId == "ffffffffffffffffffffffff"   \* a well-formed id of no catalog item
NoId == "undefined"             \* item.menuItemId missing
ObjectIds == MenuIds \cup {UnknownId}

StartTimes == {1699999999}

FreeDeliveryThreshold == 300
DeliveryCharge == 30
EstimateMs == 45 * 60 * 1000

validStatuses ==
  {"pending", "confirmed", "preparing", "out-for-delivery", "delivered", "cancelled"}

----------------------------------------------------------------------------
\* Strings.

RECURSIVE TrimStart(_)
TrimStart(s) ==
  IF s # <<>> /\ Head(s) = " " THEN TrimStart(Tail(s)) ELSE s

RECURSIVE TrimEnd(_)
TrimEnd(s) ==
  IF s # <<>> /\ s[Len(s)] = " " THEN TrimEnd(SubSeq(s, 1, Len(s) - 1)) ELSE s

\* String.prototype.trim
Trim(s) == TrimEnd(TrimStart(s))

LowerChar(c) ==
  CASE c = "A" -> "a"
    [] c = "X" -> "x"
    [] OTHER -> c

\* String.prototype.toLowerCase
ToLowerCase(s) == [i \in 1..Len(s) |-> LowerChar(s[i])]

\* JavaScript falsiness of a string field: undefined or ''
Falsy(v) == v = NoString \/ v = <<>>

\* x?.trim() || dflt
TrimOr(v, dflt) == IF v = NoString \/ Trim(v) = <<>> THEN dflt ELSE Trim(v)

Digit(d) ==
  CASE d = 0 -> "0" [] d = 1 -> "1" [] d = 2 -> "2" [] d = 3 -> "3" [] d = 4 -> "4"
    [] d = 5 -> "5" [] d = 6 -> "6" [] d = 7 -> "7" [] d = 8 -> "8" [] d = 9 -> "9"

\* Number.prototype.toString of a non-negative integer
RECURSIVE toString(_)
toString(n) ==
  IF n < 10 THEN <<Digit(n)>> ELSE Append(toString(n \div 10), Digit(n % 10))

\* s.slice(-k)
SliceLast(s, k) == IF Len(s) <= k THEN s ELSE SubSeq(s, Len(s) - k + 1, Len(s))

\* s.padStart(k, '0')
RECURSIVE PadStart(_, _)
PadStart(s, k) == IF Len(s) >= k THEN s ELSE PadStart(<<"0">> \o s, k)

----------------------------------------------------------------------------
\* State.

VARIABLES
  now,        \* the clock, Date.now()
  catalog,    \* the MenuItem collection: id -> document, NoObject once deleted
  orders,     \* the Order collection, in insertion order
  req,        \* the POST /api/orders requests
  upd,        \* the PUT /api/orders/:orderNumber/status requests
  got         \* the GET /api/orders/:orderNumber requests

vars == <<now, catalog, orders, req, upd, got>>

\* A creation request. pc: where the handler stands; customer, deliveryAddress:
\* req.body's; items: "undefined", "empty" or "listed", and length: items.length;
\* index: the position of the loop of line 44 in the list; item: the item whose
\* findById is awaited; doc: the Order built at line 93; count: the answer of
\* countDocuments; error: the name of the exception caught at line 140;
\* notified: how the confirmation e-mail ended; outcome: the response sent;
\* data: the data of the 201 response.
IdleReq ==
  [pc |-> "idle", customer |-> NoObject, deliveryAddress |-> NoObject,
   items |-> "undefined", length |-> 0, index |-> 0, item |-> NoObject,
   validatedItems |-> <<>>, subtotal |-> 0, doc |-> NoObject, count |-> 0,
   error |-> "none", notified |-> "none", outcome |-> "none", data |-> NoObject]

\* A status request. updateData: the update built at lines 267-270.
IdleUpd == [pc |-> "idle", updateData |-> NoObject, outcome |-> "none"]

\* A lookup. orderNumber: req.params'; order: the document findOne returned;
\* data: the items of the response.
IdleGet ==
  [pc |-> "idle", orderNumber |-> NoString, order |-> NoObject, outcome |-> "none",
   data |-> <<>>]

\* MenuItem.createDefaults: the seeded catalog
DefaultItems ==
  [m \in MenuIds |->
     [name |-> "CAPPUCCINO", price |-> 80, image |-> "cappuccino.jpeg",
      isAvailable |-> TRUE]]

Init ==
  /\ now \in StartTimes
  /\ catalog = DefaultItems
  /\ orders = <<>>
  /\ req = [r \in Creators |-> IdleReq]
  /\ upd = [u \in Updaters |-> IdleUpd]
  /\ got = [g \in Getters |-> IdleGet]

----------------------------------------------------------------------------
\* Pure parts of the order routes and of the Order schema.

\* mongoose.Types.ObjectId.isValid
IsValidObjectId(id) == id \in ObjectIds

\* !item.menuItemId || !mongoose.Types.ObjectId.isValid(item.menuItemId)
BadItemId(item) == item.menuItemId = NoId \/ ~IsValidObjectId(item.menuItemId)

\* MenuItem.findById
FindById(coll, id) == IF id \in DOMAIN coll THEN coll[id] ELSE NoObject

\* menuItem.price * item.quantity, the quantity counted in halves
ItemTotal(price, quantity) == (price * quantity) \div 2

\* !item.quantity || item.quantity < 1
BadQuantity(quantity) == quantity = 0 \/ quantity < 2

\* the fee with the threshold excluded: subtotal > 300 ? 0 : 30
DeliveryFeeAbove(subtotal) == IF subtotal > FreeDeliveryThreshold THEN 0 ELSE DeliveryCharge

\* subtotal >= 300 ? 0 : 30
DeliveryFee(subtotal) == IF subtotal >= FreeDeliveryThreshold THEN 0 ELSE DeliveryCharge

\* the line price taken from the request: item.price
LinePriceFromClient(menuItem, item) == item.price

\* the price the line item and the subtotal take: menuItem.price, never item.price
LinePrice(menuItem, item) == menuItem.price

\* the entry of lines 80-86 with the name of the request: item.name
LineNamedByClient(menuItem, item) ==
  [menuItem |-> item.menuItemId, name |-> item.name,
   price |-> menuItem.price, quantity |-> item.quantity,
   image |-> menuItem.image]

\* the entry pushed at lines 80-86
Line(menuItem, item) ==
  [menuItem |-> item.menuItemId, name |-> menuItem.name,
   price |-> LinePrice(menuItem, item), quantity |-> item.quantity,
   image |-> menuItem.image]

\* the order number without its sequence part
OrderNumberTimeOnly(t, count) == <<"C", "A">> \o SliceLast(toString(t), 6)

\* `CA${Date.now().toString().slice(-6)}${(count + 1).toString().padStart(3, '0')}`
OrderNumber(t, count) ==
  <<"C", "A">> \o SliceLast(toString(t), 6) \o PadStart(toString(count + 1), 3)

\* line 15 without its last test, items.length === 0
MissingFieldsNoEmpty(customer, deliveryAddress, items) ==
  customer = NoObject \/ deliveryAddress = NoObject \/ items = "undefined"

\* line 15
MissingFields(customer, deliveryAddress, items) ==
  customer = NoObject \/ deliveryAddress = NoObject \/ items = "undefined"
    \/ items = "empty"

\* line 23
MissingCustomerFields(customer) ==
  Falsy(customer.name) \/ Falsy(customer.email) \/ Falsy(customer.phone)

\* line 31
MissingAddressFields(deliveryAddress) ==
  Falsy(deliveryAddress.street) \/ Falsy(deliveryAddress.area)
    \/ Falsy(deliveryAddress.pincode)

\* new Order({...}): the record built at lines 93-111, with the schema's defaults
NewOrder(customer, deliveryAddress, validatedItems, subtotal, t) ==
  [orderNumber |-> NoString,
   customer |->
     [name |-> Trim(customer.name),
      email |-> ToLowerCase(Trim(customer.email)),
      phone |-> Trim(customer.phone)],
   deliveryAddress |->
     [street |-> Trim(deliveryAddress.street),
      area |-> Trim(deliveryAddress.area),
      city |-> TrimOr(deliveryAddress.city, <<"A", "h", "m", "e", "d", "a", "b", "a", "d">>),
      pincode |-> Trim(deliveryAddress.pincode),
      landmark |-> TrimOr(deliveryAddress.landmark, <<>>)],
   items |-> validatedItems,
   subtotal |-> subtotal,
   deliveryFee |-> DeliveryFee(subtotal),
   total |-> subtotal + DeliveryFee(subtotal),
   paymentMethod |-> "cod",
   status |-> "pending",
   estimatedDeliveryTime |-> NoDate,
   actualDeliveryTime |-> NoDate,
   createdAt |-> t,
   updatedAt |-> t]

\* the schema's validators, which save() runs before the pre-save hook
SchemaValid(doc) ==
  /\ doc.customer.name # <<>> /\ doc.customer.email # <<>> /\ doc.customer.phone # <<>>
  /\ doc.deliveryAddress.street # <<>> /\ doc.deliveryAddress.area # <<>>
  /\ doc.deliveryAddress.city # <<>> /\ doc.deliveryAddress.pincode # <<>>
  /\ \A i \in 1..Len(doc.items) : doc.items[i].name # "" /\ doc.items[i].quantity >= 2
  /\ doc.subtotal >= 0 /\ doc.deliveryFee >= 0 /\ doc.total >= 0
  /\ doc.paymentMethod = "cod"
  /\ doc.status \in validStatuses

\* the pre-save hook of a new document, lines 127-135, given countDocuments' answer
PreSave(doc, count, t) ==
  [doc EXCEPT !.orderNumber = OrderNumber(t, count),
              !.estimatedDeliveryTime = <<t + EstimateMs>>,
              !.updatedAt = t]

\* the catch block of the creation route, lines 140-164
CatchResponse(error) ==
  CASE error = "ValidationError" -> "ValidationError"
    [] error = "CastError" -> "InvalidData"
    [] OTHER -> "ServerError"

\* orderNumber without its unique index
DuplicateKeyNoIndex(coll, doc) == FALSE

\* the unique index on orderNumber
DuplicateKey(coll, doc) == \E i \in 1..Len(coll) : coll[i].orderNumber = doc.orderNumber

\* a route whose e-mail failure is not caught at line 124 and reaches the catch
\* block of line 140
RespondEmailUncaught(sent, savedOrder) ==
  IF sent = "failed"
    THEN [outcome |-> CatchResponse("Error"), data |-> NoObject]
    ELSE [outcome |-> "Created",
          data |-> [orderNumber |-> savedOrder.orderNumber, total |-> savedOrder.total,
                    estimatedDeliveryTime |-> savedOrder.estimatedDeliveryTime,
                    status |-> savedOrder.status]]

\* lines 120-138: the e-mail is tried, its failure is caught and logged, and the
\* route answers 201 with the data of the saved order
Respond(sent, savedOrder) ==
  [outcome |-> "Created",
   data |-> [orderNumber |-> savedOrder.orderNumber, total |-> savedOrder.total,
             estimatedDeliveryTime |-> savedOrder.estimatedDeliveryTime,
             status |-> savedOrder.status]]

InFlight == {r \in Creators : req[r].pc \notin {"idle", "done"}}

----------------------------------------------------------------------------
\* POST /api/orders

\* a response sent from the handler, which returns: nothing is written
Reject(r, error, outcome) ==
  /\ req' = [req EXCEPT ![r] =
               [IdleReq EXCEPT !.pc = "done", !.index = req[r].index,
                               !.error = error, !.outcome = outcome]]
  /\ UNCHANGED <<now, catalog, orders, upd, got>>

\* The loop of lines 44-87 moves on, the handler's record being rec. While items
\* are left the next one is taken and its id is checked (lines 46-51); a
\* well-formed id is looked up. The items of a request are read one by one and
\* nothing of an item is used before its turn, so the model draws each item at
\* its turn. After the last item the order is built (line 93) and saved: save()
\* runs the schema's validators and the pre-save hook asks for the document count.
Loop(r, rec, itemInputs) ==
  IF rec.index < rec.length
    THEN \E item \in itemInputs :
           IF BadItemId(item)
             THEN /\ req' = [req EXCEPT ![r] =
                       [IdleReq EXCEPT !.pc = "done", !.index = rec.index + 1,
                                       !.outcome = "InvalidItemId"]]
                  /\ UNCHANGED <<now, catalog, orders, upd, got>>
             ELSE /\ req' = [req EXCEPT ![r] =
                       [rec EXCEPT !.pc = "findById", !.index = @ + 1, !.item = item]]
                  /\ UNCHANGED <<now, catalog, orders, upd, got>>
    ELSE LET doc == NewOrder(rec.customer, rec.deliveryAddress, rec.validatedItems,
                             rec.subtotal, now)
         IN IF ~SchemaValid(doc)
              THEN Reject(r, "ValidationError", CatchResponse("ValidationError"))
              ELSE /\ req' = [req EXCEPT ![r] = [rec EXCEPT !.pc = "count", !.doc = doc]]
                   /\ UNCHANGED <<now, catalog, orders, upd, got>>

\* express hands the parsed body to the route
CreateReceive(r, bodies) ==
  /\ req[r].pc \in {"idle", "done"}
  /\ Len(orders) + Cardinality(InFlight) < MaxOrders
  /\ \E body \in bodies :
       req' = [req EXCEPT ![r] =
                 [IdleReq EXCEPT !.pc = "received", !.customer = body.customer,
                                 !.deliveryAddress = body.deliveryAddress,
                                 !.items = body.items, !.length = body.length]]
  /\ UNCHANGED <<now, catalog, orders, upd, got>>

\* lines 12-54: the fields are checked and the loop starts
CreateStart(r, itemInputs) ==
  /\ req[r].pc = "received"
  /\ IF MissingFields(req[r].customer, req[r].deliveryAddress, req[r].items)
       THEN Reject(r, "none", "MissingFields")
     ELSE IF MissingCustomerFields(req[r].customer)
       THEN Reject(r, "none", "MissingCustomerFields")
     ELSE IF MissingAddressFields(req[r].deliveryAddress)
       THEN Reject(r, "none", "MissingAddressFields")
     ELSE Loop(r, req[r], itemInputs)

\* lines 54-87: findById answers; the item is checked and pushed, and the loop
\* moves on
CreateFound(r, itemInputs) ==
  /\ req[r].pc = "findById"
  /\ LET item == req[r].item
         menuItem == FindById(catalog, item.menuItemId)
     IN
     IF menuItem = NoObject THEN Reject(r, "none", "ItemNotFound")
     ELSE IF ~menuItem.isAvailable THEN Reject(r, "none", "ItemUnavailable")
     ELSE IF BadQuantity(item.quantity) THEN Reject(r, "none", "InvalidQuantity")
     ELSE Loop(r,
               [req[r] EXCEPT
                  !.validatedItems = Append(@, Line(menuItem, item)),
                  !.subtotal = @ + ItemTotal(LinePrice(menuItem, item), item.quantity),
                  !.item = NoObject],
               itemInputs)

\* lines 126-137: countDocuments answers, the hook stamps the document and
\* save() sends the insert
CreatePreSave(r) ==
  /\ req[r].pc = "count"
  /\ req' = [req EXCEPT ![r].count = Len(orders),
                        ![r].doc = PreSave(@, Len(orders), now),
                        ![r].pc = "insert"]
  /\ UNCHANGED <<now, catalog, orders, upd, got>>

\* lines 115-138: the insert reaches the collection. The unique index rejects a
\* document whose orderNumber is taken, and the error is caught at line 140.
\* Otherwise the order is stored; the route populates it, tries the confirmation
\* e-mail, whose failure is caught and logged, and answers 201. The route module
\* neither defines nor imports sendOrderEmail, so the call of line 122 throws a
\* ReferenceError inside the try; the model lets the e-mail succeed as well.
CreateInsert(r) ==
  /\ req[r].pc = "insert"
  /\ IF DuplicateKey(orders, req[r].doc)
       THEN Reject(r, "MongoServerError", CatchResponse("MongoServerError"))
       ELSE /\ orders' = Append(orders, req[r].doc)
            /\ \E sent \in {"sent", "failed"} :
                 req' = [req EXCEPT ![r] =
                           [IdleReq EXCEPT
                              !.pc = "done", !.notified = sent,
                              !.outcome = Respond(sent, req[r].doc).outcome,
                              !.data = Respond(sent, req[r].doc).data]]
            /\ UNCHANGED <<now, catalog, upd, got>>

----------------------------------------------------------------------------
\* PUT /api/orders/:orderNumber/status

\* lines 267-270
UpdateData(status, t) ==
  [status |-> status, actualDeliveryTime |-> IF status = "delivered" THEN <<t>> ELSE NoDate]

\* an update that replaces the document's other fields by the schema's defaults
\* instead of setting two fields
ApplyUpdateReplace(order, updateData) ==
  [order EXCEPT !.status = updateData.status,
                !.actualDeliveryTime = updateData.actualDeliveryTime,
                !.orderNumber = NoString,
                !.deliveryFee = DeliveryCharge]

\* an update that treats delivered and cancelled as final
ApplyUpdateGuarded(order, updateData) ==
  IF order.status \in {"delivered", "cancelled"}
    THEN order
    ELSE [order EXCEPT !.status = updateData.status,
                       !.actualDeliveryTime =
                          IF updateData.actualDeliveryTime # NoDate
                            THEN updateData.actualDeliveryTime ELSE @]

\* the $set that findOneAndUpdate applies to the matched document
ApplyUpdate(order, updateData) ==
  [order EXCEPT !.status = updateData.status,
                !.actualDeliveryTime =
                   IF updateData.actualDeliveryTime # NoDate
                     THEN updateData.actualDeliveryTime ELSE @]

GoodCustomer ==
  [name |-> <<" ", "A", "n", " ">>, email |-> <<"A", "@", "X">>, phone |-> <<"9", "8">>]

GoodAddress ==
  [street |-> <<"1", " ", "R", "d">>, area |-> <<"S", "G">>, city |-> NoString,
   pincode |-> <<"3", "8">>, landmark |-> NoString]

\* an order number of no order
NoSuchNumber == <<"C", "A", "0">>

Matches(coll, orderNumber) == {i \in 1..Len(coll) : coll[i].orderNumber = orderNumber}

\* findOneAndUpdate with upsert: true, which inserts the update when no document
\* matches
FindOneAndUpsert(coll, orderNumber, updateData) ==
  IF Matches(coll, orderNumber) # {}
    THEN LET i == CHOOSE j \in Matches(coll, orderNumber) : TRUE
         IN [coll EXCEPT ![i] = ApplyUpdate(@, updateData)]
    ELSE Append(coll,
                ApplyUpdate([NewOrder(GoodCustomer, GoodAddress, <<>>, 0, 0)
                               EXCEPT !.orderNumber = orderNumber],
                            updateData))

\* Order.findOneAndUpdate({ orderNumber }, updateData, { new: true, ... }): the
\* collection after the update, unchanged when no document matches
FindOneAndUpdate(coll, orderNumber, updateData) ==
  IF Matches(coll, orderNumber) # {}
    THEN LET i == CHOOSE j \in Matches(coll, orderNumber) : TRUE
         IN [coll EXCEPT ![i] = ApplyUpdate(@, updateData)]
    ELSE coll

\* lines 256-270: the status is checked and the update is built
UpdateStart(u, statusInputs) ==
  /\ upd[u].pc \in {"idle", "done"}
  /\ \E status \in statusInputs :
       upd' = [upd EXCEPT ![u] =
                 IF status \notin validStatuses
                   THEN [IdleUpd EXCEPT !.pc = "done", !.outcome = "InvalidStatus"]
                   ELSE [IdleUpd EXCEPT !.pc = "update",
                                        !.updateData = UpdateData(status, now)]]
  /\ UNCHANGED <<now, catalog, orders, req, got>>

\* lines 272-289: the update reaches the collection and the route answers. The
\* orderNumber of the request is first used by this query, so the model draws it
\* here.
UpdateApply(u) ==
  /\ upd[u].pc = "update"
  /\ \E orderNumber \in {orders[i].orderNumber : i \in 1..Len(orders)} \cup {NoSuchNumber} :
       /\ orders' = FindOneAndUpdate(orders, orderNumber, upd[u].updateData)
       /\ upd' = [upd EXCEPT ![u] =
            [IdleUpd EXCEPT !.pc = "done",
               !.outcome = IF Matches(orders, orderNumber) # {}
                             THEN "Updated" ELSE "NotFound"]]
  /\ UNCHANGED <<now, catalog, req, got>>

----------------------------------------------------------------------------
\* The catalog routes of src/menu.js

\* the fields of the body replace those of the document
Merge(menuItem, body) ==
  [f \in DOMAIN menuItem |-> IF f \in DOMAIN body THEN body[f] ELSE menuItem[f]]

\* PUT /api/menu/:id
MenuUpdate(m, editBodies) ==
  /\ catalog[m] # NoObject
  /\ \E body \in editBodies : catalog' = [catalog EXCEPT ![m] = Merge(@, body)]
  /\ UNCHANGED <<now, orders, req, upd, got>>

\* DELETE /api/menu/:id
MenuDelete(m) ==
  /\ catalog[m] # NoObject
  /\ catalog' = [catalog EXCEPT ![m] = NoObject]
  /\ UNCHANGED <<now, orders, req, upd, got>>

----------------------------------------------------------------------------
\* The clock

Tick ==
  /\ \A t \in StartTimes : now < t + MaxTicks
  /\ now' = now + 1
  /\ UNCHANGED <<catalog, orders, req, upd, got>>

----------------------------------------------------------------------------
\* Inputs.

CustomerInputs ==
  { NoObject,
    GoodCustomer,
    [GoodCustomer EXCEPT !.name = NoString],
    [GoodCustomer EXCEPT !.email = <<>>],
    [GoodCustomer EXCEPT !.phone = NoString],
    [GoodCustomer EXCEPT !.name = <<" ">>] }

AddressInputs ==
  { NoObject,
    GoodAddress,
    [GoodAddress EXCEPT !.street = NoString],
    [GoodAddress EXCEPT !.pincode = <<>>] }

\* every shape of body: items missing, empty, or a list of 1..MaxItems items
AllBodies ==
  { [customer |-> c, deliveryAddress |-> a, items |-> "undefined", length |-> 0] :
      c \in CustomerInputs, a \in AddressInputs }
  \cup { [customer |-> c, deliveryAddress |-> a, items |-> "empty", length |-> 0] :
      c \in CustomerInputs, a \in AddressInputs }
  \cup { [customer |-> c, deliveryAddress |-> a, items |-> "listed", length |-> n] :
      c \in CustomerInputs, a \in AddressInputs, n \in 1..MaxItems }

\* quantities in halves: -1, 0, 0.5, 2
AllItems ==
  { [menuItemId |-> id, quantity |-> q, price |-> p] :
      id \in ObjectIds \cup {MalformedId, NoId}, q \in {-2, 0, 1, 4}, p \in {2} }

\* a well-formed order of one item
PlainBodies ==
  { [customer |-> GoodCustomer, deliveryAddress |-> GoodAddress, items |-> "listed",
     length |-> 1] }

PlainItems == { [menuItemId |-> m, quantity |-> 2, price |-> 80] : m \in MenuIds }

AllEdits ==
  { [price |-> 150, name |-> "MOCHA", image |-> "mocha.jpeg"],
    [isAvailable |-> FALSE],
    [isAvailable |-> TRUE] }

PriceEdits == { [price |-> 300, name |-> "HAMPER", image |-> "hamper.jpeg"] }

StatusInputs == {"confirmed", "delivered", "shipped"}

----------------------------------------------------------------------------
\* Specifications.

\* Orders are created one after the other, from every shape of request, while
\* the catalog is edited.
NextBuild ==
  \/ CreateReceive("c1", AllBodies)
  \/ CreateStart("c1", AllItems)
  \/ CreateFound("c1", AllItems)
  \/ CreatePreSave("c1")
  \/ CreateInsert("c1")
  \/ \E m \in MenuIds : MenuUpdate(m, AllEdits)
  \/ \E m \in MenuIds : MenuDelete(m)

SpecBuild == Init /\ [][NextBuild]_vars

\* Well-formed orders are created concurrently while the clock runs.
NextRace ==
  \/ \E r \in Creators : CreateReceive(r, PlainBodies)
  \/ \E r \in Creators : CreateStart(r, PlainItems)
  \/ \E r \in Creators : CreateFound(r, PlainItems)
  \/ \E r \in Creators : CreatePreSave(r)
  \/ \E r \in Creators : CreateInsert(r)
  \/ Tick

SpecRace == Init /\ [][NextRace]_vars

\* Orders are created one after the other while their status is changed, the
\* catalog is edited and the clock runs.
Next ==
  \/ CreateReceive("c1", PlainBodies)
  \/ CreateStart("c1", PlainItems)
  \/ CreateFound("c1", PlainItems)
  \/ CreatePreSave("c1")
  \/ CreateInsert("c1")
  \/ \E u \in Updaters : UpdateStart(u, StatusInputs)
  \/ \E u \in Updaters : UpdateApply(u)
  \/ \E m \in MenuIds : MenuUpdate(m, PriceEdits)
  \/ \E m \in MenuIds : MenuDelete(m)
  \/ Tick

Spec == Init /\ [][Next]_vars

----------------------------------------------------------------------------
\* Properties.

Orders == {orders[i] : i \in 1..Len(orders)}

RECURSIVE SumOfLines(_)
SumOfLines(lines) ==
  IF lines = <<>> THEN 0
  ELSE (lines[1].price * lines[1].quantity) \div 2 + SumOfLines(Tail(lines))

SubtotalIsSumOfLines ==
  /\ \A o \in Orders : o.subtotal = SumOfLines(o.items)
  /\ \A r \in Creators :
       /\ req[r].subtotal = SumOfLines(req[r].validatedItems)
       /\ req[r].doc # NoObject =>
            /\ req[r].doc.items = req[r].validatedItems
            /\ req[r].doc.subtotal = req[r].subtotal

LinePriceReadFromCatalog ==
  \A r \in Creators :
    LET before == req[r].validatedItems
        after == req'[r].validatedItems
    IN
    /\ (req[r].pc = "findById" /\ Len(after) = Len(before) + 1) =>
         /\ SubSeq(after, 1, Len(before)) = before
         /\ after[Len(after)].menuItem = req[r].item.menuItemId
         /\ after[Len(after)].quantity = req[r].item.quantity
         /\ after[Len(after)].price = catalog[req[r].item.menuItemId].price
    /\ (req[r].pc \in {"findById", "count", "insert"}
          /\ req'[r].pc \in {"findById", "count", "insert"}
          /\ Len(after) = Len(before)) => after = before
    /\ (req[r].pc = "insert" /\ Len(orders') = Len(orders) + 1) =>
         orders'[Len(orders')].items = before

SubtotalFromCatalog == []SubtotalIsSumOfLines /\ [][LinePriceReadFromCatalog]_vars

\* an order of two lines of the same menu item, whose price changed between the
\* two reads, and neither price is the request's
SubtotalFromCatalogWitness ==
  \E o \in Orders :
    /\ Len(o.items) = 2
    /\ o.items[1].menuItem = o.items[2].menuItem
    /\ o.items[1].price # o.items[2].price
    /\ \A i \in 1..2 : \A it \in AllItems : o.items[i].price # it.price

\* what makes a request invalid before any item is read
BodyIncomplete(rec) ==
  rec.customer = NoObject \/ rec.deliveryAddress = NoObject \/ rec.items # "listed"
    \/ rec.length = 0

\* what makes the awaited item invalid, given the catalog
ItemRefused(item, coll) ==
  \/ item.menuItemId \notin DOMAIN coll
  \/ coll[item.menuItemId] = NoObject
  \/ ~coll[item.menuItemId].isAvailable
  \/ item.quantity < 2

FailureKinds ==
  {"MissingFields", "MissingCustomerFields", "MissingAddressFields", "InvalidItemId",
   "ItemNotFound", "ItemUnavailable", "InvalidQuantity", "ValidationError"}

\* C3. A creation request that fails validation writes nothing: the step that
\* answers with a failure leaves the collection as it was; a request without
\* customer, address or items, or with an empty list, and a request whose
\* awaited item is unknown, unavailable or of a bad quantity, ends at once,
\* whatever was validated before; and an order is inserted only for a request
\* all of whose items were validated.
FailedCreationWritesNothing ==
  [][ \A r \in Creators :
        /\ (req'[r].pc = "done" /\ req[r].pc # "done"
              /\ req'[r].outcome \in FailureKinds) => orders' = orders
        /\ (req[r].pc = "received" /\ BodyIncomplete(req[r]) /\ req'[r] # req[r]) =>
             (req'[r].pc = "done" /\ req'[r].outcome \in FailureKinds)
        /\ (req[r].pc = "findById" /\ ItemRefused(req[r].item, catalog)
              /\ req'[r] # req[r]) =>
             (req'[r].pc = "done" /\ req'[r].outcome \in FailureKinds)
        /\ (req[r].pc # "done" /\ req'[r].pc = "done" /\ orders' # orders) =>
             /\ req[r].pc = "insert"
             /\ req[r].items = "listed"
             /\ Len(req[r].validatedItems) = req[r].length
             /\ req[r].length >= 1
             /\ orders' = Append(orders, req[r].doc)
    ]_vars

\* the second item of a request was refused after a valid first one, while an
\* order was in the collection
FailedCreationWitness ==
  /\ Len(orders) = 1
  /\ req["c1"].pc = "done"
  /\ req["c1"].index = 2
  /\ req["c1"].outcome \in {"InvalidItemId", "ItemNotFound", "ItemUnavailable", "InvalidQuantity"}

\* C4. No two persisted orders have the same orderNumber.
OrderNumbersUnique ==
  \A i, j \in 1..Len(orders) : i # j => orders[i].orderNumber # orders[j].orderNumber

\* two creations ran concurrently, generated the same number, and one is stored
OrderNumbersUniqueWitness ==
  /\ Len(orders) >= 1
  /\ \E r \in Creators : req[r].error = "MongoServerError"

\* C5. A creation whose insert meets an order of the same orderNumber persists
\* nothing, ends without a second attempt, and is answered as a conflict.
CollisionAnsweredAsConflict ==
  [][ \A r \in Creators :
        (/\ req[r].pc = "insert"
         /\ \E o \in Orders : o.orderNumber = req[r].doc.orderNumber
         /\ req'[r] # req[r]) =>
          /\ orders' = orders
          /\ req'[r].pc = "done"
          /\ req'[r].outcome = "Conflict"
    ]_vars

\* C6. The number generated for a creation differs from the number of every
\* order that was persisted when the creation counted the documents: creations
\* that run one after the other get distinct numbers, at equal and at different
\* times.
SequentialNumbersDistinct ==
  \A r \in Creators :
    req[r].pc = "insert" =>
      /\ req[r].count <= Len(orders)
      /\ \A i \in 1..req[r].count : orders[i].orderNumber # req[r].doc.orderNumber

\* a creation numbered in the same millisecond as the order persisted before it
SequentialNumbersWitness ==
  \E r \in Creators :
    /\ req[r].pc = "insert"
    /\ req[r].count = 1
    /\ SubSeq(req[r].doc.orderNumber, 1, 8) = SubSeq(orders[1].orderNumber, 1, 8)

\* the status request u has just updated an order
Transition(u) ==
  upd[u].pc = "update" /\ upd'[u].pc = "done" /\ upd'[u].outcome = "Updated"

\* C7. A successful transition to delivered sets actualDeliveryTime to a time
\* >= the order's createdAt; a successful transition to another status leaves
\* actualDeliveryTime as it was.
DeliveryTimeNotBeforeCreation ==
  [][ \A u \in Updaters :
        Transition(u) =>
          IF upd[u].updateData.status = "delivered"
            THEN \E i \in 1..Len(orders) :
                   /\ orders'[i].status = "delivered"
                   /\ orders'[i].actualDeliveryTime # NoDate
                   /\ orders'[i].actualDeliveryTime[1] >= orders[i].createdAt
                   /\ \A j \in 1..Len(orders) : j # i => orders'[j] = orders[j]
            ELSE \A i \in 1..Len(orders) :
                   orders'[i].actualDeliveryTime = orders[i].actualDeliveryTime
    ]_vars

\* C8. A status request that is rejected, for its status or for its order
\* number, changes no order and creates none.
RejectedTransitionChangesNothing ==
  [][ \A u \in Updaters :
        (upd'[u] # upd[u] /\ upd'[u].outcome \in {"InvalidStatus", "NotFound"}) =>
          orders' = orders
    ]_vars

\* a request for an order number of no order was rejected while orders exist
RejectedTransitionWitness ==
  /\ Len(orders) >= 1
  /\ \E u \in Updaters : upd[u].outcome = "NotFound"

\* C9. A persisted order stays in the collection, and nothing of it changes but
\* status, actualDeliveryTime and updatedAt: its orderNumber, items, subtotal,
\* deliveryFee and total are those of its creation.
PersistedOrderFrozen ==
  [][ \A i \in 1..Len(orders) :
        /\ i <= Len(orders')
        /\ orders'[i] = [orders[i] EXCEPT
                           !.status = orders'[i].status,
                           !.actualDeliveryTime = orders'[i].actualDeliveryTime,
                           !.updatedAt = orders'[i].updatedAt]
    ]_vars

\* an order was delivered, its menu item was deleted from the catalog, and
\* another order was created after it
PersistedOrderFrozenWitness ==
  /\ Len(orders) = 2
  /\ orders[1].status = "delivered"
  /\ catalog[orders[1].items[1].menuItem] = NoObject

\* the rules of the validation sequence, as the specification words them
EmptyAfterTrim(v) == v = NoString \/ Trim(v) = <<>>

CustomerIncomplete(customer) ==
  EmptyAfterTrim(customer.name) \/ EmptyAfterTrim(customer.email)
    \/ EmptyAfterTrim(customer.phone)

AddressIncomplete(deliveryAddress) ==
  Falsy(deliveryAddress.street) \/ Falsy(deliveryAddress.area)
    \/ Falsy(deliveryAddress.pincode)

\* C10. The failure reported for a creation request is that of the first rule
\* it violates: MissingFields, MissingCustomerFields (name, email or phone absent
\* or empty after trim), MissingAddressFields, then per item InvalidItemId,
\* ItemNotFound, ItemUnavailable, InvalidQuantity.
FirstViolationReported ==
  [][ \A r \in Creators :
        /\ (req[r].pc = "received" /\ req'[r] # req[r]) =>
             IF BodyIncomplete(req[r])
               THEN req'[r].outcome = "MissingFields"
             ELSE IF CustomerIncomplete(req[r].customer)
               THEN req'[r].outcome = "MissingCustomerFields"
             ELSE IF AddressIncomplete(req[r].deliveryAddress)
               THEN req'[r].outcome = "MissingAddressFields"
             ELSE req'[r].outcome \in {"none", "InvalidItemId"}
        /\ (req[r].pc = "findById" /\ req'[r] # req[r]) =>
             LET item == req[r].item IN
             IF item.menuItemId \notin DOMAIN catalog \/ catalog[item.menuItemId] = NoObject
               THEN req'[r].outcome = "ItemNotFound"
             ELSE IF ~catalog[item.menuItemId].isAvailable
               THEN req'[r].outcome = "ItemUnavailable"
             ELSE IF item.quantity < 2
               THEN req'[r].outcome = "InvalidQuantity"
             ELSE req'[r].outcome \in {"none", "InvalidItemId"}
    ]_vars

----------------------------------------------------------------------------
\* Two clients order the same items; the first sends the catalog's name and
\* price with each item, the second a name and a price of its own. The catalog
\* and the clock stay as they are.

\* bodies of 1..MaxItems items
ListedBodies ==
  { [customer |-> GoodCustomer, deliveryAddress |-> GoodAddress, items |-> "listed",
     length |-> n] : n \in 1..MaxItems }

HonestItems ==
  { [menuItemId |-> m, quantity |-> q, price |-> 80, name |-> "CAPPUCCINO"] :
      m \in MenuIds, q \in {2, 4} }

TamperedItems ==
  { [menuItemId |-> m, quantity |-> q, price |-> p, name |-> "FREE"] :
      m \in MenuIds, q \in {2, 4}, p \in {0, 2} }

NextTamper ==
  \/ CreateReceive("c1", ListedBodies)
  \/ CreateStart("c1", HonestItems)
  \/ CreateFound("c1", HonestItems)
  \/ CreateReceive("c2", ListedBodies)
  \/ CreateStart("c2", TamperedItems)
  \/ CreateFound("c2", TamperedItems)
  \/ \E r \in Creators : CreatePreSave(r)
  \/ \E r \in Creators : CreateInsert(r)

SpecTamper == Init /\ [][NextTamper]_vars

\* what a list of lines keeps of the request: the id and the quantity of each item
Asked(lines) ==
  [i \in 1..Len(lines) |-> [menuItemId |-> lines[i].menuItem, quantity |-> lines[i].quantity]]

\* the orders built, in the collection or on their way to it
Built == Orders \cup {req[r].doc : r \in {c \in Creators : req[c].doc # NoObject}}

\* C11. Two orders built from requests that differ only in the name and the
\* price the client gave for the items have the same line items (name, price,
\* image, quantity), subtotal, deliveryFee and total.
ClientNameAndPriceIgnored ==
  \A o1, o2 \in Built :
    Asked(o1.items) = Asked(o2.items) =>
      /\ o1.items = o2.items
      /\ o1.subtotal = o2.subtotal
      /\ o1.deliveryFee = o2.deliveryFee
      /\ o1.total = o2.total

\* the first client's order of two items is stored and the second client's
\* order of the same items, sent with another name and price, is about to be
ClientNameAndPriceIgnoredWitness ==
  /\ Len(orders) = 1
  /\ req["c1"].pc = "done" /\ req["c1"].outcome = "Created"
  /\ req["c2"].pc = "insert"
  /\ Len(orders[1].items) = 2
  /\ Asked(req["c2"].doc.items) = Asked(orders[1].items)

----------------------------------------------------------------------------
\* Orders of every quantity.

\* quantities in halves: -1, 0, 0.5, 1, 1.5
QuantityItems ==
  { [menuItemId |-> m, quantity |-> q, price |-> 80] :
      m \in MenuIds, q \in {-2, 0, 1, 2, 3} }

NextQuantity ==
  \/ CreateReceive("c1", ListedBodies)
  \/ CreateStart("c1", QuantityItems)
  \/ CreateFound("c1", QuantityItems)
  \/ CreatePreSave("c1")
  \/ CreateInsert("c1")

SpecQuantity == Init /\ [][NextQuantity]_vars

\* C12. Every line item of every persisted order has a quantity that is an
\* integer >= 1 (in halves: an even number >= 2).
QuantitiesWhole ==
  \A o \in Orders :
    \A i \in 1..Len(o.items) : o.items[i].quantity % 2 = 0 /\ o.items[i].quantity >= 2

----------------------------------------------------------------------------
\* C13. An order enters the collection with status pending and with an
\* estimatedDeliveryTime exactly 45 minutes after its createdAt.
EstimateIsCreationPlus45 ==
  [][ Len(orders') = Len(orders) + 1 =>
        LET o == orders'[Len(orders')] IN
        /\ o.status = "pending"
        /\ o.estimatedDeliveryTime = <<o.createdAt + EstimateMs>>
    ]_vars

----------------------------------------------------------------------------
\* C14. However the confirmation e-mail ends, the creation that stored an
\* order answers 201 with that order's orderNumber, total,
\* estimatedDeliveryTime and status, and the order of a 201 answer stays in the
\* collection.
NotificationOutcomeIgnored ==
  [][ \A r \in Creators :
        /\ (req[r].pc = "insert" /\ Len(orders') = Len(orders) + 1
              /\ req'[r] # req[r]) =>
             LET o == orders'[Len(orders')] IN
             /\ o = req[r].doc
             /\ req'[r].notified \in {"sent", "failed"}
             /\ req'[r].outcome = "Created"
             /\ req'[r].data =
                  [orderNumber |-> o.orderNumber, total |-> o.total,
                   estimatedDeliveryTime |-> o.estimatedDeliveryTime,
                   status |-> o.status]
        /\ req'[r].outcome = "Created" =>
             \E i \in 1..Len(orders') :
               /\ orders'[i].orderNumber = req'[r].data.orderNumber
               /\ orders'[i].total = req'[r].data.total
               /\ orders'[i].estimatedDeliveryTime = req'[r].data.estimatedDeliveryTime
    ]_vars

\* the e-mail of a creation failed, the creation was answered 201, and another
\* order was stored after it
NotificationOutcomeWitness ==
  \E r \in Creators :
    /\ req[r].pc = "done" /\ req[r].notified = "failed" /\ req[r].outcome = "Created"
    /\ Len(orders) = 2
    /\ orders[1].orderNumber = req[r].data.orderNumber

----------------------------------------------------------------------------
\* The status of stored orders is set to every value, in every order.

EveryStatus == validStatuses \cup {"shipped"}

NextStatus ==
  \/ CreateReceive("c1", PlainBodies)
  \/ CreateStart("c1", PlainItems)
  \/ CreateFound("c1", PlainItems)
  \/ CreatePreSave("c1")
  \/ CreateInsert("c1")
  \/ \E u \in Updaters : UpdateStart(u, EveryStatus)
  \/ \E u \in Updaters : UpdateApply(u)

SpecStatus == Init /\ [][NextStatus]_vars

\* C15. For every stored order, whatever its status, and every status t of the
\* enumeration, the update to t of that order leaves it in status t; and every
\* transition that was answered as done left an order in the status asked for.
NoTransitionGuard ==
  [][ /\ \A i \in 1..Len(orders) : \A t \in validStatuses :
           LET after == FindOneAndUpdate(orders, orders[i].orderNumber,
                                         UpdateData(t, now))
           IN /\ Len(after) = Len(orders)
              /\ after[i].status = t
      /\ \A u \in Updaters :
           Transition(u) =>
             \E i \in 1..Len(orders) :
               /\ orders'[i].status = upd[u].updateData.status
               /\ \A j \in 1..Len(orders') : j # i => orders'[j] = orders[j]
    ]_vars

\* an order was delivered and is pending again, another is cancelled, and a
\* request to confirm an order is on its way
NoTransitionGuardWitness ==
  /\ Len(orders) = 2
  /\ orders[1].status = "pending" /\ orders[1].actualDeliveryTime # NoDate
  /\ orders[2].status = "cancelled"
  /\ upd["u1"].pc = "update" /\ upd["u1"].updateData.status = "confirmed"

----------------------------------------------------------------------------
\* GET /api/orders/:orderNumber

\* Order.findOne({ orderNumber })
FindOne(coll, orderNumber) ==
  IF Matches(coll, orderNumber) # {}
    THEN coll[CHOOSE j \in Matches(coll, orderNumber) : TRUE]
    ELSE NoObject

\* the item of the response, lines 190-195; menuItem is the populated document,
\* NoObject when the catalog has none. a || b takes b when a is falsy: '' or 0.
Project(item, menuItem) ==
  [name |-> IF item.name # "" THEN item.name
            ELSE IF menuItem # NoObject /\ menuItem.name # "" THEN menuItem.name
            ELSE "Unnamed Item",
   price |-> IF item.price # 0 THEN item.price
             ELSE IF menuItem # NoObject /\ menuItem.price # 0 THEN menuItem.price
             ELSE 0,
   quantity |-> item.quantity,
   image |-> IF item.image # "" THEN item.image
             ELSE IF menuItem # NoObject /\ menuItem.image # "" THEN menuItem.image
             ELSE ""]

\* lines 170-181: findOne answers
LookupFind(g) ==
  /\ got[g].pc \in {"idle", "done"}
  /\ \E orderNumber \in {orders[i].orderNumber : i \in 1..Len(orders)} \cup {NoSuchNumber} :
       LET order == FindOne(orders, orderNumber) IN
       got' = [got EXCEPT ![g] =
                 IF order = NoObject
                   THEN [IdleGet EXCEPT !.pc = "done", !.orderNumber = orderNumber,
                                        !.outcome = "NotFound"]
                   ELSE [IdleGet EXCEPT !.pc = "populate", !.orderNumber = orderNumber,
                                        !.order = order]]
  /\ UNCHANGED <<now, catalog, orders, req, upd>>

\* lines 172-200: populate reads the menu items and the route answers
LookupPopulate(g) ==
  /\ got[g].pc = "populate"
  /\ got' = [got EXCEPT ![g] =
               [got[g] EXCEPT
                  !.pc = "done", !.outcome = "Found",
                  !.data = [i \in 1..Len(got[g].order.items) |->
                              Project(got[g].order.items[i],
                                      FindById(catalog, got[g].order.items[i].menuItem))]]]
  /\ UNCHANGED <<now, catalog, orders, req, upd>>

\* the price of a menu item set to 0 and to 150
FreeEdits == { [price |-> 0], [price |-> 150] }

NextLookup ==
  \/ CreateReceive("c1", PlainBodies)
  \/ CreateStart("c1", PlainItems)
  \/ CreateFound("c1", PlainItems)
  \/ CreatePreSave("c1")
  \/ CreateInsert("c1")
  \/ \E m \in MenuIds : MenuUpdate(m, FreeEdits)
  \/ \E m \in MenuIds : MenuDelete(m)
  \/ \E g \in Getters : LookupFind(g)
  \/ \E g \in Getters : LookupPopulate(g)

SpecLookup == Init /\ [][NextLookup]_vars

\* C16. A lookup answers not-found only for a number of no order, and
\* otherwise returns for each line the name, price and image of its snapshot:
\* a snapshot price of 0 is returned as 0.
LookupReturnsSnapshot ==
  [][ \A g \in Getters :
        /\ (got[g].pc \in {"idle", "done"} /\ got'[g] # got[g]) =>
             IF Matches(orders, got'[g].orderNumber) = {}
               THEN got'[g].pc = "done" /\ got'[g].outcome = "NotFound"
               ELSE /\ got'[g].pc = "populate"
                    /\ got'[g].order \in Orders
                    /\ got'[g].order.orderNumber = got'[g].orderNumber
        /\ (got[g].pc = "populate" /\ got'[g].pc = "done") =>
             /\ got'[g].outcome = "Found"
             /\ Len(got'[g].data) = Len(got[g].order.items)
             /\ \A i \in 1..Len(got'[g].data) :
                  /\ got'[g].data[i].name = got[g].order.items[i].name
                  /\ got'[g].data[i].price = got[g].order.items[i].price
                  /\ got'[g].data[i].quantity = got[g].order.items[i].quantity
                  /\ got'[g].data[i].image = got[g].order.items[i].image
    ]_vars

----------------------------------------------------------------------------
\* Status requests that are each handled within one millisecond: the clock
\* advances only while no status request is on its way, so that the time of a
\* transition is the clock's value when the update is applied.

TickBetweenUpdates ==
  /\ \A u \in Updaters : upd[u].pc # "update"
  /\ Tick

NextRefresh ==
  \/ CreateReceive("c1", PlainBodies)
  \/ CreateStart("c1", PlainItems)
  \/ CreateFound("c1", PlainItems)
  \/ CreatePreSave("c1")
  \/ CreateInsert("c1")
  \/ \E u \in Updaters : UpdateStart(u, StatusInputs)
  \/ \E u \in Updaters : UpdateApply(u)
  \/ TickBetweenUpdates

SpecRefresh == Init /\ [][NextRefresh]_vars

\* C17. A successful status transition leaves the order with an updatedAt that
\* is the time of the transition, and so not earlier than its
\* actualDeliveryTime when the target is delivered.
TransitionRefreshesUpdatedAt ==
  [][ \A u \in Updaters :
        Transition(u) =>
          \E i \in 1..Len(orders) :
            /\ orders'[i].status = upd[u].updateData.status
            /\ \A j \in 1..Len(orders) : j # i => orders'[j] = orders[j]
            /\ orders'[i].updatedAt = now
            /\ upd[u].updateData.status = "delivered" =>
                 orders'[i].updatedAt >= orders'[i].actualDeliveryTime[1]
    ]_vars

====
